---- MODULE Spec2Model ----
(***************************************************************************)
(* The Connatix bid adapter of Prebid.js.                                  *)
(*                                                                         *)
(* The repository holds several revisions of one adapter:                  *)
(*   "rev1"  modules/connatixBidAdapter.js, lines 1-180                    *)
(*   "rev2"  modules/connatixBidAdapter.js, lines 182-399                  *)
(*   "old"   unnamed/part_001 (the older variant; unnamed/part_000 lines   *)
(*           306-514 repeat it with another wrapAd template)               *)
(* The variable revision says which one is loaded.  The host framework     *)
(* calls one adapter function at a time (call-and-return); every action    *)
(* below is one such call: it records the arguments in call and the        *)
(* outcome in ret, and changes document / requestId as the code does.      *)
(*                                                                         *)
(* JavaScript values are tagged records: [t |-> type, v |-> payload].      *)
(* An absent property and a property whose value is undefined are the same *)
(* thing here (no code of the adapter tells them apart).                   *)
(***************************************************************************)
EXTENDS Integers, Sequences, FiniteSets, TLC

VARIABLES revision, phase, call, ret, document, requestId

vars == <<revision, phase, call, ret, document, requestId>>

(* ------------------------------ bounds -------------------------------- *)

\* most iframes the model lets wrapAd (rev2) append to document.body
MaxDocNodes == 3
\* longest list of bid requests handed to buildRequests
MaxBids == 2
\* longest Bids list of a server response
MaxRespBids == 2

(* --------------------------- JavaScript values ------------------------ *)

Undef == [t |-> "undefined"]
Null == [t |-> "null"]
Str(s) == [t |-> "string", v |-> s]
Num(n) == [t |-> "number", v |-> n]
Bool(b) == [t |-> "boolean", v |-> b]
Arr(s) == [t |-> "array", v |-> s]
\* an object whose properties are the fields of the record r
Obj(r) == [t |-> "object", v |-> r]
\* an object whose own keys, in insertion order, are keys
OrdObj(keys, r) == [t |-> "object", k |-> keys, v |-> r]
\* a function value; b is what a call of it does
Fn(b) == [t |-> "function", v |-> b]

Ret(v) == [kind |-> "return", value |-> v]
Throw(e) == [kind |-> "throw", error |-> e]

\* Boolean(x)
Truthy(x) ==
  CASE x.t = "undefined" -> FALSE
    [] x.t = "null" -> FALSE
    [] x.t = "string" -> x.v # ""
    [] x.t = "number" -> x.v # 0
    [] x.t = "boolean" -> x.v
    [] OTHER -> TRUE

\* typeof x
TypeOf(x) ==
  CASE x.t = "null" -> "object"
    [] x.t = "array" -> "object"
    [] OTHER -> x.t

\* o[k] for an o that is neither null nor undefined
Prop(o, k) ==
  IF o.t = "object" /\ k \in DOMAIN o.v THEN o.v[k] ELSE Undef

\* reading a property of null or undefined raises a TypeError
Nullish(o) == o.t \in {"undefined", "null"}

isFn(x) == x.t = "function"

isArray(x) == x.t = "array"

RECURSIVE deepAccessFrom(_, _, _)
deepAccessFrom(obj, path, i) ==
  IF i > Len(path) THEN obj
  ELSE deepAccessFrom(IF Truthy(obj) THEN Prop(obj, path[i]) ELSE Undef, path, i + 1)

\* utils.deepAccess (dlv): walk the path, stop being defined at the first
\* falsy step, and return def only when the result is undefined
deepAccess(obj, path, def) ==
  LET r == deepAccessFrom(obj, path, 1) IN IF r = Undef THEN def ELSE r

(* ------------------------------ constants ----------------------------- *)

BIDDER_CODE == "connatix"
AD_URL == "https://capi.connatix.com/rtb/hba"
DEFAULT_MAX_TTL == Str("3600")
DEFAULT_CURRENCY == "USD"
BANNER == "banner"
OLD_AD_URL == "http://wuttudu.com/pbjs"

Revisions == {"rev1", "rev2", "old"}

(* ----------------------------- bid requests --------------------------- *)

EmptyObj == Obj([none |-> Undef])

MkBid(bidId, bidder, params, mediaTypes, sizes, getFloor) ==
  Obj([bidId |-> bidId, bidder |-> bidder, params |-> params,
       mediaTypes |-> mediaTypes, sizes |-> sizes, getFloor |-> getFloor])

MkParams(placementId, bidfloor, test) ==
  Obj([placementId |-> placementId, bidfloor |-> bidfloor, test |-> test])

MkMediaTypes(banner, video) == Obj([banner |-> banner, video |-> video])

Size300x250 == Arr(<<Num(300), Num(250)>>)
Size728x90 == Arr(<<Num(728), Num(90)>>)

\* what mediaTypes.banner.sizes is: absent, not an array, empty, non-empty
SizesChoices == {Undef, Str("test"), Arr(<<>>), Arr(<<Size300x250>>)}

BannerChoices == {Undef} \cup {Obj([sizes |-> s]) : s \in SizesChoices}

VideoChoices ==
  {Undef, Obj([context |-> Str("adpod")]), Obj([context |-> Str("instream")])}

MediaTypesChoices ==
  {Undef} \cup {MkMediaTypes(b, v) : b \in BannerChoices, v \in VideoChoices}

ParamsChoices ==
  {Undef} \cup
  {MkParams(p, Undef, x) : p \in {Undef, Str(""), Str("p1")}, x \in {Undef, Num(1)}}

\* the bid requests isBidRequestValid is asked about; Undef is a call
\* without an argument
ValidationBids ==
  {Undef} \cup
  {MkBid(i, b, p, m, Undef, Undef) :
     i \in {Undef, Str(""), Str("b1")},
     b \in {Undef, Str(BIDDER_CODE), Str("abc")},
     p \in ParamsChoices,
     m \in MediaTypesChoices}

(* --------------------------- isBidRequestValid ------------------------ *)

\* a validator that turns down a request carrying a parameter it does not
\* know (params.test)
isBidRequestValidKnownParams(bidArg) ==
  LET bid == IF bidArg = Undef THEN EmptyObj ELSE bidArg
      sizes == Prop(Prop(Prop(bid, "mediaTypes"), BANNER), "sizes")
      isValid == /\ Prop(bid, "bidder") = Str(BIDDER_CODE)
                 /\ Truthy(Prop(bid, "bidId"))
                 /\ isArray(sizes) /\ Len(sizes.v) > 0
                 /\ Truthy(Prop(Prop(bid, "params"), "placementId"))
                 /\ Prop(Prop(bid, "params"), "test") = Undef
  IN [out |-> Ret(Bool(isValid)), logs |-> IF isValid THEN 0 ELSE 1]

\* a validator that does not look at the bidder field, and takes a request
\* without a banner on its bidId and placementId alone
isBidRequestValidAnyBidder(bidArg) ==
  LET bid == IF bidArg = Undef THEN EmptyObj ELSE bidArg
      banner == Prop(Prop(bid, "mediaTypes"), BANNER)
      sizes == Prop(banner, "sizes")
      isValid == /\ Truthy(Prop(bid, "bidId"))
                 /\ Truthy(Prop(Prop(bid, "params"), "placementId"))
                 /\ Truthy(banner) => (isArray(sizes) /\ Len(sizes.v) > 0)
  IN [out |-> Ret(Bool(isValid)), logs |-> IF isValid THEN 0 ELSE 1]

\* rev1 and rev2 (the two copies are the same code)
isBidRequestValidNew(bidArg) ==
  LET bid == IF bidArg = Undef THEN EmptyObj ELSE bidArg
      bidId == deepAccess(bid, <<"bidId">>, Undef)
      mediaTypes == deepAccess(bid, <<"mediaTypes">>, EmptyObj)
      params == deepAccess(bid, <<"params">>, EmptyObj)
      bidder == deepAccess(bid, <<"bidder">>, Undef)
      banner == deepAccess(mediaTypes, <<BANNER>>, EmptyObj)
      hasBidId == Truthy(bidId)
      isValidBidder == (bidder = Str(BIDDER_CODE))
      isValidSize == /\ Truthy(Prop(banner, "sizes"))
                     /\ isArray(Prop(Prop(mediaTypes, BANNER), "sizes"))
                     /\ Len(Prop(Prop(mediaTypes, BANNER), "sizes").v) > 0
      hasSizes == IF Truthy(Prop(mediaTypes, BANNER)) THEN isValidSize ELSE FALSE
      hasRequiredBidParams == Truthy(Prop(params, "placementId"))
      isValid == isValidBidder /\ hasBidId /\ hasSizes /\ hasRequiredBidParams
  IN [out |-> Ret(Bool(isValid)), logs |-> IF isValid THEN 0 ELSE 1]

\* the older variant
isBidRequestValidOld(bidArg) ==
  LET bid == IF bidArg = Undef THEN EmptyObj ELSE bidArg
      params == Prop(bid, "params")
      bidId == Prop(bid, "bidId")
      mediaTypes == Prop(bid, "mediaTypes")
      valid0 == Truthy(bidId) /\ Truthy(params) /\ Truthy(Prop(params, "placementId"))
      valid == IF Truthy(mediaTypes) /\ Truthy(Prop(mediaTypes, BANNER))
               THEN valid0 /\ Truthy(Prop(mediaTypes, BANNER))
                           /\ Truthy(Prop(Prop(mediaTypes, BANNER), "sizes"))
               ELSE valid0
  IN [out |-> Ret(Bool(valid)), logs |-> 0]

isBidRequestValid(rev, bid) ==
  IF rev = "old" THEN isBidRequestValidOld(bid) ELSE isBidRequestValidNew(bid)

(* ------------------------------ getBidFloor --------------------------- *)

\* what a call of bid.getFloor does: it returns a value or it throws
FloorBehaviours ==
  {Ret(Obj([floor |-> Num(7)])), Ret(Obj([floor |-> Undef])), Ret(Null),
   Ret(Num(5)), Throw("Error")}

GetFloorChoices == {Undef, Str("notAFunction")} \cup {Fn(b) : b \in FloorBehaviours}

BidfloorChoices == {Undef, Num(3), Str("2")}

FloorParamsChoices ==
  {Undef} \cup {MkParams(Str("p1"), f, Undef) : f \in BidfloorChoices}

StdMediaTypes == MkMediaTypes(Obj([sizes |-> Arr(<<Size300x250>>)]), Undef)

\* the bid requests getBidFloor is called on directly
FloorBids ==
  {MkBid(Str("b1"), Str(BIDDER_CODE), p, StdMediaTypes, Undef, g) :
     p \in FloorParamsChoices, g \in GetFloorChoices}

\* a floor resolution that prefers the static params.bidfloor to the floor
\* getFloor reports
getBidFloorStaticFirst(bid) ==
  LET getFloor == Prop(bid, "getFloor")
      bidfloor == Prop(Prop(bid, "params"), "bidfloor")
  IN IF bidfloor # Undef THEN [out |-> Ret(bidfloor), logs |-> 0]
     ELSE IF isFn(getFloor) /\ getFloor.v.kind = "return" /\ ~Nullish(getFloor.v.value)
     THEN [out |-> Ret(Prop(getFloor.v.value, "floor")), logs |-> 0]
     ELSE [out |-> Ret(Num(0)), logs |-> IF isFn(getFloor) THEN 1 ELSE 0]

\* a floor resolution that falls back to params.bidfloor when getFloor
\* throws
getBidFloorFallsBack(bid) ==
  LET getFloor == Prop(bid, "getFloor")
      static == deepAccess(bid, <<"params", "bidfloor">>, Num(0))
  IN IF ~isFn(getFloor) THEN [out |-> Ret(static), logs |-> 0]
     ELSE IF getFloor.v.kind = "throw" \/ Nullish(getFloor.v.value)
     THEN [out |-> Ret(static), logs |-> 1]
     ELSE [out |-> Ret(Prop(getFloor.v.value, "floor")), logs |-> 0]

\* the same code in rev1, rev2 and the older variant
getBidFloor(bid) ==
  LET getFloor == Prop(bid, "getFloor") IN
  IF ~isFn(getFloor)
  THEN [out |-> Ret(deepAccess(bid, <<"params", "bidfloor">>, Num(0))), logs |-> 0]
  ELSE LET bidFloor == getFloor.v IN
       IF bidFloor.kind = "throw" THEN [out |-> Ret(Num(0)), logs |-> 1]
       ELSE IF Nullish(bidFloor.value) THEN [out |-> Ret(Num(0)), logs |-> 1]
       ELSE [out |-> Ret(Prop(bidFloor.value, "floor")), logs |-> 0]

(* -------------------------------- strings ----------------------------- *)

\* s.includes(sub)
Contains(s, sub) ==
  \E i \in 1..(Len(s) - Len(sub) + 1) : SubSeq(s, i, i + Len(sub) - 1) = sub

\* String(x), as a template literal's ${x} converts x
ToStr(x) ==
  CASE x.t = "undefined" -> "undefined"
    [] x.t = "null" -> "null"
    [] x.t = "string" -> x.v
    [] x.t = "number" -> ToString(x.v)
    [] x.t = "boolean" -> (IF x.v THEN "true" ELSE "false")
    [] OTHER -> "[object Object]"

RECURSIVE JoinFrom(_, _, _)
JoinFrom(parts, sep, i) ==
  IF i > Len(parts) THEN ""
  ELSE IF i = Len(parts) THEN parts[i]
  ELSE parts[i] \o sep \o JoinFrom(parts, sep, i + 1)

\* parts.join(sep)
Join(parts, sep) == JoinFrom(parts, sep, 1)

\* the keys of an ordered object whose value JSON.stringify keeps
KeptKeys(o) == SelectSeq(o.k, LAMBDA key : o.v[key].t \notin {"undefined", "function"})

RECURSIVE JsonStringify(_)
\* JSON.stringify(x) for an x that is not undefined (strings without
\* characters that need escaping)
JsonStringify(x) ==
  CASE x.t = "null" -> "null"
    [] x.t = "string" -> "\"" \o x.v \o "\""
    [] x.t = "number" -> ToString(x.v)
    [] x.t = "boolean" -> (IF x.v THEN "true" ELSE "false")
    [] x.t = "array" ->
         "[" \o Join([i \in 1..Len(x.v) |->
                        IF x.v[i].t \in {"undefined", "function"} THEN "null"
                        ELSE JsonStringify(x.v[i])], ",") \o "]"
    [] x.t = "object" ->
         "{" \o Join([i \in 1..Len(KeptKeys(x)) |->
                        "\"" \o KeptKeys(x)[i] \o "\":"
                          \o JsonStringify(x.v[KeptKeys(x)[i]])], ",") \o "}"

(* -------------------------------- wrapAd ------------------------------ *)

WrapAdRev1T0 ==
  "<!DOCTYPE html>\n      <html lang=\"en\">\n      <head>\n          <meta charset=\"UTF-8\">\n          <title></title>\n          <script>!function(n){if(!window.cnx){window.cnx={},window.cnx.cmd=[];var t=n.createElement('iframe');t.src='javascript:false'; t.display='none',t.onload=function(){var n=t.contentWindow.document,c=n.createElement('script');c.src=\""

WrapAdRev1T1 ==
  "\",c.setAttribute('async','1'),c.setAttribute('type','text/javascript'),n.body.appendChild(c)},n.head.appendChild(t)}}(document);</script>\n          <style>html, body {width: 100%; height: 100%; margin: 0;}</style>\n      </head>\n      <body>\n        <script id=\""

WrapAdRev1T2 ==
  "\">(new Image()).src = 'https://capi.connatix.com/tr/si?token="

WrapAdRev1T3 ==
  "&cid="

WrapAdRev1T4 ==
  "';  cnx.cmd.push(function() {    cnx({      playerId: \""

WrapAdRev1T5 ==
  "\", settings: "

WrapAdRev1T6 ==
  " }).render(\""

WrapAdRev1T7 ==
  "\");  });</script>\n      </body>\n    </html>"

WrapAdRev2T0 ==
  "<!DOCTYPE html><html lang=\"en\"><head><meta charset=\"UTF-8\"><script>!function(n){if(!window.cnx){window.cnx={},window.cnx.cmd=[];var t=n.createElement('iframe');t.src='javascript:false'; t.display='none',t.onload=function(){var n=t.contentWindow.document,c=n.createElement('script');c.src=\""

WrapAdRev2T1 ==
  "\",c.setAttribute('async','1'),c.setAttribute('type','text/javascript'),n.body.appendChild(c)},n.head.appendChild(t)}}(document);</script><style>html, body {width: 100%; height: 100%; margin: 0;}</style></head><body><script id=\""

WrapAdRev2T2 ==
  "\">(new Image()).src = 'https://capi.connatix.com/tr/si?token="

WrapAdRev2T3 ==
  "&cid="

WrapAdRev2T4 ==
  "';  cnx.cmd.push(function() {    cnx({      playerId: \""

WrapAdRev2T5 ==
  "\", settings: "

WrapAdRev2T6 ==
  " }).render(\""

WrapAdRev2T7 ==
  "\");  });</script></body></html>"

WrapAdOldT0 ==
  "<!DOCTYPE html>\n    <html lang=\"en\">\n    <head>\n        <meta charset=\"UTF-8\">\n        <title></title>\n        <script>!function (n) { if (!window.cnx) { window.cnx = {}, window.cnx.cmd = []; var t = n.createElement('iframe'); t.src = 'javascript:false'; t.display = 'none', t.onload = function () { var n = t.contentWindow.document, c = n.createElement('script'); c.src = '//cd.connatix.com/connatix.player.js?cid=99f20d18-c4b4-4a28-8d8e-d43e2c8cb4ac', c.setAttribute('async', '1'), c.setAttribute('type', 'text/javascript'), n.body.appendChild(c) }, n.head.appendChild(t) } }(document);</script>\n\n        <style>html, body {width: 100%; height: 100%; margin: 0;}</style>\n    </head>\n    <body>\n    <script id=\"32b84638d9c1430e9934b4a1373173bb\">(new Image()).src = 'https://capi.connatix.com/tr/si?token=bdc31711-adcf-441c-a12b-5be3f96493b2&cid=99f20d18-c4b4-4a28-8d8e-d43e2c8cb4ac'; cnx.cmd.push(function () {\n      cnx({\n          playerId: \"bdc31711-adcf-441c-a12b-5be3f96493b2\",\n      }).render(\"32b84638d9c1430e9934b4a1373173bb\")});</script>\n    </body>\n  </html>"

\* var settings = {advertising: {standaloneLineItems: lineItems}}
Settings(lineItems) ==
  OrdObj(<<"advertising">>,
         [advertising |-> OrdObj(<<"standaloneLineItems">>,
                                 [standaloneLineItems |-> lineItems])])

\* var scriptSrc = `//cd.connatix.com/connatix.player.js?cid=${customerId}`
ScriptSrc(customerId) == "//cd.connatix.com/connatix.player.js?cid=" \o ToStr(customerId)

\* rev1: the markup, and nothing else
wrapAdRev1(lineItems, reqId, playerId, customerId) ==
  [out |-> Ret(Str(
     WrapAdRev1T0 \o ScriptSrc(customerId) \o WrapAdRev1T1 \o ToStr(reqId)
       \o WrapAdRev1T2 \o ToStr(playerId) \o WrapAdRev1T3 \o ToStr(customerId)
       \o WrapAdRev1T4 \o ToStr(playerId) \o WrapAdRev1T5
       \o JsonStringify(Settings(lineItems)) \o WrapAdRev1T6 \o ToStr(reqId)
       \o WrapAdRev1T7)),
   logs |-> 0, appended |-> 0]

\* rev2: the same markup on one line; an iframe is appended to
\* document.body and the markup written into it before it is returned
wrapAdRev2(lineItems, reqId, playerId, customerId) ==
  [out |-> Ret(Str(
     WrapAdRev2T0 \o ScriptSrc(customerId) \o WrapAdRev2T1 \o ToStr(reqId)
       \o WrapAdRev2T2 \o ToStr(playerId) \o WrapAdRev2T3 \o ToStr(customerId)
       \o WrapAdRev2T4 \o ToStr(playerId) \o WrapAdRev2T5
       \o JsonStringify(Settings(lineItems)) \o WrapAdRev2T6 \o ToStr(reqId)
       \o WrapAdRev2T7)),
   logs |-> 0, appended |-> 1]

\* the older variant: wrapAd(bid) returns a fixed template and reads nothing
\* of its argument; arguments after the first are ignored
wrapAdOld(bid, reqId, playerId, customerId) ==
  [out |-> Ret(Str(WrapAdOldT0)), logs |-> 0, appended |-> 0]

wrapAd(rev, lineItems, reqId, playerId, customerId) ==
  CASE rev = "rev1" -> wrapAdRev1(lineItems, reqId, playerId, customerId)
    [] rev = "rev2" -> wrapAdRev2(lineItems, reqId, playerId, customerId)
    [] rev = "old" -> wrapAdOld(lineItems, reqId, playerId, customerId)

\* a line item of a bid record, as the tests' {LineItem: {}, Bids: {}}
LineItemA ==
  OrdObj(<<"LineItem", "Bids">>,
         [LineItem |-> OrdObj(<<>>, [none |-> Undef]),
          Bids |-> OrdObj(<<>>, [none |-> Undef])])

LineItemB ==
  OrdObj(<<"LineItem", "Bids">>,
         [LineItem |-> OrdObj(<<"Type">>, [Type |-> Num(2)]),
          Bids |-> Arr(<<OrdObj(<<"CreativeId">>, [CreativeId |-> Str("c1")])>>)])

LineItemsChoices == {Undef, Arr(<<>>), Arr(<<LineItemA>>), Arr(<<LineItemA, LineItemB>>)}

RequestIds == {Str("2f897340c4eaa3"), Str("requestId")}
PlayerIds == {Str("e4984e88-9ff4-45a3-8b9d-33aabcad634f")}
CustomerIds == {Str("99f20d18-c4b4-4a28-3d8e-d43e2c8cb4ac")}

(* ----------------------------- buildRequests -------------------------- *)

GetFloorReturns7 == Fn(Ret(Obj([floor |-> Num(7)])))
GetFloorThrows == Fn(Throw("Error"))

\* bid requests as the host hands them to buildRequests; the legacy
\* top-level sizes field is absent on "b1" and present on "b2"
BuildBidChoices ==
  {MkBid(Str(i), Str(BIDDER_CODE), MkParams(Str("p1"), f, Undef), StdMediaTypes,
         IF i = "b1" THEN Undef ELSE Arr(<<Size728x90>>), g) :
     i \in {"b1", "b2"}, f \in {Undef, Num(3)},
     g \in {Undef, GetFloorReturns7, GetFloorThrows}}

\* the host passes buildRequests only requests isBidRequestValid accepted
BuildBids(rev) ==
  {b \in BuildBidChoices : isBidRequestValid(rev, b).out = Ret(Bool(TRUE))}

SeqsUpTo(S, n) == UNION {[1..m -> S] : m \in 0..n}

GdprConsentFull ==
  Obj([consentString |-> Str("BOJ/P2H+A=="), gdprApplies |-> Bool(TRUE)])
RefererInfo ==
  Obj([referer |-> Str("http://example.com"), reachedTop |-> Bool(TRUE),
       page |-> Str("https://example.com/article")])
RefererInfoBadPage ==
  Obj([referer |-> Str("http://example.com"), reachedTop |-> Bool(FALSE),
       page |-> Str("about:blank")])
Ortb2 == Obj([site |-> Obj([data |-> Obj([pageType |-> Str("article")])])])
GppConsent == Obj([gppString |-> Str("DBABMA~1YNN"), applicableSections |-> Arr(<<Num(7)>>)])

MkBidderRequest(ortb2, gdpr, usp, referer, gpp, bids) ==
  Obj([ortb2 |-> ortb2, gdprConsent |-> gdpr, uspConsent |-> usp,
       refererInfo |-> referer, gppConsent |-> gpp, bids |-> bids])

\* auction contexts for a list of bid requests: bids is the host's list of
\* the bidder's requests, or absent as in the tests' fixture; Undef is a
\* call without the second argument
BidderRequests(bids) ==
  {Undef} \cup
  {MkBidderRequest(c[1], c[2], c[3], c[4], c[5], b) :
     c \in {<<Ortb2, GdprConsentFull, Str("1YYY"), RefererInfo, GppConsent>>,
            <<Undef, GdprConsentFull, Undef, RefererInfoBadPage, Undef>>,
            <<Ortb2, Undef, Str("1YYY"), Undef, Undef>>,
            <<Undef, Undef, Undef, Undef, GppConsent>>},
     b \in {Undef, bids}}

RECURSIVE SumLogs(_, _)
SumLogs(rs, i) == IF i > Len(rs) THEN 0 ELSE rs[i].logs + SumLogs(rs, i + 1)

\* a buildRequests that lists the bid requests last to first
buildRequestsReversed(bidsArg, bidderRequestArg) ==
  LET validBidRequests == IF bidsArg = Undef THEN <<>> ELSE bidsArg.v
      bidderRequest == IF bidderRequestArg = Undef THEN EmptyObj ELSE bidderRequestArg
      n == Len(validBidRequests)
      floors == [i \in 1..n |-> getBidFloor(validBidRequests[i])]
      bidRequests ==
        [i \in 1..n |->
           LET bid == validBidRequests[n + 1 - i] IN
           Obj([bidId |-> Prop(bid, "bidId"),
                mediaTypes |-> Prop(bid, "mediaTypes"),
                sizes |-> Prop(bid, "sizes"),
                placementId |-> Prop(Prop(bid, "params"), "placementId"),
                floor |-> floors[n + 1 - i].out.value])]
  IN [out |-> Ret(Obj([method |-> Str("POST"), url |-> Str(AD_URL),
                       data |-> Obj([ortb2 |-> Prop(bidderRequest, "ortb2"),
                                     gdprConsent |-> Prop(bidderRequest, "gdprConsent"),
                                     uspConsent |-> Prop(bidderRequest, "uspConsent"),
                                     refererInfo |-> Prop(bidderRequest, "refererInfo"),
                                     bidRequests |-> Arr(bidRequests)])])),
      logs |-> SumLogs(floors, 1),
      after |-> [validBidRequests |-> bidsArg, bidderRequest |-> bidderRequestArg]]

\* a buildRequests that stores the floor it resolved in the bid request it
\* was given (bid.params.bidfloor = floor)
buildRequestsStoresFloor(bidsArg, bidderRequestArg) ==
  LET validBidRequests == IF bidsArg = Undef THEN <<>> ELSE bidsArg.v
      bidderRequest == IF bidderRequestArg = Undef THEN EmptyObj ELSE bidderRequestArg
      floors == [i \in 1..Len(validBidRequests) |-> getBidFloor(validBidRequests[i])]
      written ==
        [i \in 1..Len(validBidRequests) |->
           LET bid == validBidRequests[i] IN
           Obj([bid.v EXCEPT !.params =
                  Obj([bid.v.params.v EXCEPT !.bidfloor = floors[i].out.value])])]
      bidRequests ==
        [i \in 1..Len(validBidRequests) |->
           LET bid == validBidRequests[i] IN
           Obj([bidId |-> Prop(bid, "bidId"),
                mediaTypes |-> Prop(bid, "mediaTypes"),
                sizes |-> Prop(bid, "sizes"),
                placementId |-> Prop(Prop(bid, "params"), "placementId"),
                floor |-> floors[i].out.value])]
  IN [out |-> Ret(Obj([method |-> Str("POST"), url |-> Str(AD_URL),
                       data |-> Obj([ortb2 |-> Prop(bidderRequest, "ortb2"),
                                     gdprConsent |-> Prop(bidderRequest, "gdprConsent"),
                                     uspConsent |-> Prop(bidderRequest, "uspConsent"),
                                     refererInfo |-> Prop(bidderRequest, "refererInfo"),
                                     bidRequests |-> Arr(bidRequests)])])),
      logs |-> SumLogs(floors, 1),
      after |-> [validBidRequests |-> IF bidsArg = Undef THEN Undef ELSE Arr(written),
                 bidderRequest |-> bidderRequestArg]]

\* rev1 and rev2 (the two copies are the same code); the code assigns to
\* no property of its arguments: after is the arguments when the call ends
buildRequestsNew(bidsArg, bidderRequestArg) ==
  LET validBidRequests == IF bidsArg = Undef THEN <<>> ELSE bidsArg.v
      bidderRequest == IF bidderRequestArg = Undef THEN EmptyObj ELSE bidderRequestArg
      floors == [i \in 1..Len(validBidRequests) |-> getBidFloor(validBidRequests[i])]
      bidRequests ==
        [i \in 1..Len(validBidRequests) |->
           LET bid == validBidRequests[i] IN
           Obj([bidId |-> Prop(bid, "bidId"),
                mediaTypes |-> Prop(bid, "mediaTypes"),
                sizes |-> Prop(bid, "sizes"),
                placementId |-> Prop(Prop(bid, "params"), "placementId"),
                floor |-> floors[i].out.value])]
      requestPayload ==
        Obj([ortb2 |-> Prop(bidderRequest, "ortb2"),
             gdprConsent |-> Prop(bidderRequest, "gdprConsent"),
             uspConsent |-> Prop(bidderRequest, "uspConsent"),
             refererInfo |-> Prop(bidderRequest, "refererInfo"),
             bidRequests |-> Arr(bidRequests)])
  IN IF \E i \in 1..Len(validBidRequests) : Nullish(Prop(validBidRequests[i], "params"))
     THEN [out |-> Throw("TypeError"), logs |-> 0,
           after |-> [validBidRequests |-> bidsArg, bidderRequest |-> bidderRequestArg]]
     ELSE [out |-> Ret(Obj([method |-> Str("POST"), url |-> Str(AD_URL),
                            data |-> requestPayload])),
           logs |-> SumLogs(floors, 1),
           after |-> [validBidRequests |-> bidsArg, bidderRequest |-> bidderRequestArg]]

(* --------------------------- interpretResponse ------------------------ *)

MkBidRecord(rq, cpm, ttl, creativeId, lineItems) ==
  Obj([RequestId |-> rq, Cpm |-> cpm, Ttl |-> ttl, CreativeId |-> creativeId,
       LineItems |-> lineItems, Width |-> Undef, Height |-> Undef,
       Referrer |-> Undef])

\* bid records of a server response: complete ones, one without Ttl, one
\* without CreativeId, one with a zero Cpm
BidRecords ==
  {MkBidRecord(Str("2f897340c4eaa3"), Num(4), Num(86400), Str("c1"), Arr(<<>>)),
   MkBidRecord(Str("requestId"), Num(13), Num(86400), Str("c2"), Arr(<<LineItemA>>)),
   MkBidRecord(Str("2f897340c4eaa3"), Num(13), Undef, Str("c1"), Arr(<<>>)),
   MkBidRecord(Str("requestId"), Num(4), Num(86400), Undef, Arr(<<>>)),
   MkBidRecord(Str("requestId"), Num(0), Num(86400), Str("c1"), Arr(<<>>))}

MkBody(playerId, customerId, bids, endpoint) ==
  Obj([PlayerId |-> playerId, CustomerId |-> customerId, Bids |-> bids,
       UserSyncEndpoint |-> endpoint])

BidsChoices == {Undef, Null} \cup {Arr(s) : s \in SeqsUpTo(BidRecords, MaxRespBids)}

ResponseBodies ==
  {MkBody(p, c, b, Undef) :
     p \in PlayerIds \cup {Null}, c \in CustomerIds \cup {Null}, b \in BidsChoices}

\* the responses handed to interpretResponse: {body, headers}
ServerResponses == {Obj([body |-> b]) : b \in ResponseBodies \cup {Undef}}

\* the response literal embedded in rev2 (its LineItems entry abridged to
\* the keys of its one element)
EmbeddedLineItems ==
  Arr(<<OrdObj(<<"LineItem", "Bids">>,
               [LineItem |-> OrdObj(<<"GdprvId">>, [GdprvId |-> Str("12")]),
                Bids |-> Arr(<<OrdObj(<<"CreativeId">>,
                                      [CreativeId |-> Str("blisspoint-3919")])>>)])>>)

EmbeddedResponse ==
  Obj([body |->
    MkBody(Str("e4984e88-9ff4-45a3-8b9d-33aabcad634e"),
           Str("99f20d18-c4b4-4a28-8d8e-d43e2c8cb4ac"),
           Arr(<<MkBidRecord(Str("21cb54857820cd"), Num(8), Num(86400), Undef,
                             EmbeddedLineItems)>>),
           Undef)])

\* the ad of one bid record: wrapAd on its LineItems and RequestId
adOf(rev, bidResponse, playerId, customerId) ==
  wrapAd(rev, Prop(bidResponse, "LineItems"), Prop(bidResponse, "RequestId"),
         playerId, customerId)

RECURSIVE AdsAppended(_, _, _, _, _)
\* the nodes the wrapAd calls for bids[i..] append to the document
AdsAppended(rev, bids, playerId, customerId, i) ==
  IF i > Len(bids) THEN 0
  ELSE adOf(rev, bids[i], playerId, customerId).appended
         + AdsAppended(rev, bids, playerId, customerId, i + 1)

\* the result built from one bid record
bidResponseOf(rev, bidResponse, playerId, customerId) ==
  Obj([requestId |-> Prop(bidResponse, "RequestId"),
       cpm |-> Prop(bidResponse, "Cpm"),
       ttl |-> IF Truthy(Prop(bidResponse, "Ttl"))
               THEN Prop(bidResponse, "Ttl") ELSE DEFAULT_MAX_TTL,
       currency |-> Str("USD"),
       mediaType |-> Str(BANNER),
       netRevenue |-> Bool(TRUE),
       width |-> Prop(bidResponse, "Width"),
       height |-> Prop(bidResponse, "Height"),
       creativeId |-> Prop(bidResponse, "CreativeId"),
       referrer |-> Prop(bidResponse, "Referrer"),
       ad |-> adOf(rev, bidResponse, playerId, customerId).out.value])

\* an interpretResponse that drops the records without a positive Cpm or
\* without a CreativeId
interpretBodyFiltered(rev, responseBody) ==
  LET bids == Prop(responseBody, "Bids")
      playerId == Prop(responseBody, "PlayerId")
      customerId == Prop(responseBody, "CustomerId")
  IN IF ~isArray(bids) \/ ~Truthy(playerId) \/ ~Truthy(customerId)
     THEN [out |-> Ret(Arr(<<>>)), logs |-> 0, appended |-> 0]
     ELSE LET kept == SelectSeq(bids.v, LAMBDA b : Truthy(Prop(b, "Cpm"))
                                           /\ Truthy(Prop(b, "CreativeId")))
          IN [out |-> Ret(Arr([i \in 1..Len(kept) |->
                                 bidResponseOf(rev, kept[i], playerId, customerId)])),
              logs |-> 0,
              appended |-> AdsAppended(rev, kept, playerId, customerId, 1)]

\* the part rev1 and rev2 share: guard, then one result per bid record
\* (wrapAd is the loaded revision's)
interpretBody(rev, responseBody) ==
  LET bids == Prop(responseBody, "Bids")
      playerId == Prop(responseBody, "PlayerId")
      customerId == Prop(responseBody, "CustomerId")
  IN IF ~isArray(bids) \/ ~Truthy(playerId) \/ ~Truthy(customerId)
     THEN [out |-> Ret(Arr(<<>>)), logs |-> 0, appended |-> 0]
     ELSE LET bidResponses ==
                [i \in 1..Len(bids.v) |->
                   bidResponseOf(rev, bids.v[i], playerId, customerId)]
          IN [out |-> Ret(Arr(bidResponses)), logs |-> 0,
              appended |-> AdsAppended(rev, bids.v, playerId, customerId, 1)]

interpretResponseRev1(serverResponse) ==
  LET responseBody == Prop(serverResponse, "body") IN
  IF Nullish(responseBody)
  THEN [out |-> Throw("TypeError"), logs |-> 0, appended |-> 0]
  ELSE interpretBody("rev1", responseBody)

\* rev2: a response without PlayerId, CustomerId or Bids is replaced by the
\* embedded literal before the shared part runs
interpretResponseRev2(serverResponse) ==
  LET body0 == Prop(serverResponse, "body") IN
  IF Nullish(body0)
  THEN [out |-> Throw("TypeError"), logs |-> 0, appended |-> 0]
  ELSE LET used == IF \/ ~Truthy(Prop(body0, "PlayerId"))
                      \/ ~Truthy(Prop(body0, "CustomerId"))
                      \/ ~Truthy(Prop(body0, "Bids"))
                   THEN EmbeddedResponse ELSE serverResponse
       IN interpretBody("rev2", Prop(used, "body"))

(* ------------------------------ getUserSyncs -------------------------- *)

\* the characters of the model's strings that encodeURIComponent escapes
Escaped(c) ==
  CASE c = "/" -> "%2F"
    [] c = "+" -> "%2B"
    [] c = "=" -> "%3D"
    [] c = "&" -> "%26"
    [] c = "?" -> "%3F"
    [] c = "~" -> "~"
    [] OTHER -> c

RECURSIVE EncodeFrom(_, _)
EncodeFrom(s, i) ==
  IF i > Len(s) THEN "" ELSE Escaped(SubSeq(s, i, i)) \o EncodeFrom(s, i + 1)

encodeURIComponent(s) == EncodeFrom(s, 1)

\* utils.formatQS for scalar values: k=v pairs, in key order, joined by &
formatQS(keys, params) ==
  Join([i \in 1..Len(keys) |-> keys[i] \o "=" \o params[keys[i]]], "&")

SyncOptionsChoices ==
  {Obj([iframeEnabled |-> e]) : e \in {Bool(TRUE), Bool(FALSE), Undef}}

SyncResponse(endpoint) == Obj([body |-> MkBody(Undef, Undef, Undef, endpoint)])

SyncResponsesChoices ==
  {Undef, Arr(<<>>),
   Arr(<<SyncResponse(Str("https://sync.one/s"))>>),
   Arr(<<SyncResponse(Str("https://sync.one/s")), SyncResponse(Str("https://sync.two/s"))>>),
   Arr(<<SyncResponse(Undef)>>),
   Arr(<<Obj([body |-> Undef])>>)}

GdprChoices ==
  {Undef, EmptyObj} \cup
  {Obj([consentString |-> c, gdprApplies |-> a]) :
     c \in {Undef, Str("BOJ/P2H+A==")}, a \in {Undef, Bool(TRUE), Bool(FALSE)}}

UspChoices == {Undef, Str("1YYY"), Str(""), EmptyObj}

\* rev1: "We don't do user sync for now"
getUserSyncsRev1(syncOptions, serverResponses, gdprConsent, uspConsent) ==
  [out |-> Ret(Arr(<<>>)), logs |-> 0]

\* a getUserSyncs that writes gdpr_consent for every consent object,
\* whether or not it carries a consent string
getUserSyncsAlwaysConsent(syncOptions, serverResponses, gdprConsent, uspConsent) ==
  IF \/ ~Truthy(Prop(syncOptions, "iframeEnabled"))
     \/ ~Truthy(serverResponses) \/ Len(serverResponses.v) = 0
  THEN [out |-> Ret(Arr(<<>>)), logs |-> 0]
  ELSE
    LET params == [gdpr |-> IF Prop(gdprConsent, "gdprApplies") = Bool(TRUE)
                            THEN "1" ELSE "0",
                   gdpr_consent |-> encodeURIComponent(ToStr(Prop(gdprConsent,
                                                                  "consentString"))),
                   us_privacy |-> encodeURIComponent(ToStr(uspConsent))]
        keys == (IF Truthy(gdprConsent) THEN <<"gdpr", "gdpr_consent">> ELSE <<>>)
                  \o (IF TypeOf(uspConsent) = "string" THEN <<"us_privacy">> ELSE <<>>)
        body == Prop(serverResponses.v[1], "body")
        syncUrl == Prop(body, "UserSyncEndpoint")
    IN IF Nullish(body) THEN [out |-> Throw("TypeError"), logs |-> 0]
       ELSE [out |-> Ret(Arr(<<Obj([type |-> Str("iframe"),
                                    url |-> IF Len(keys) > 0
                                            THEN Str(ToStr(syncUrl) \o "?"
                                                       \o formatQS(keys, params))
                                            ELSE syncUrl])>>)),
             logs |-> 0]

getUserSyncsRev2(syncOptions, serverResponses, gdprConsent, uspConsent) ==
  IF ~Truthy(Prop(syncOptions, "iframeEnabled"))
  THEN [out |-> Ret(Arr(<<>>)), logs |-> 0]
  ELSE IF ~Truthy(serverResponses) \/ Len(serverResponses.v) = 0
  THEN [out |-> Ret(Arr(<<>>)), logs |-> 0]
  ELSE
    LET gdpr == IF Truthy(gdprConsent)
                THEN IF TypeOf(Prop(gdprConsent, "gdprApplies")) = "boolean"
                     THEN (IF Prop(gdprConsent, "gdprApplies").v THEN "1" ELSE "0")
                     ELSE "0"
                ELSE ""
        hasGdpr == Truthy(gdprConsent)
        hasConsent == /\ Truthy(gdprConsent)
                      /\ TypeOf(Prop(gdprConsent, "consentString")) = "string"
        hasUsp == TypeOf(uspConsent) = "string"
        params == [gdpr |-> gdpr,
                   gdpr_consent |-> IF hasConsent
                                    THEN encodeURIComponent(Prop(gdprConsent, "consentString").v)
                                    ELSE "",
                   us_privacy |-> IF hasUsp THEN encodeURIComponent(uspConsent.v) ELSE ""]
        keys == (IF hasGdpr THEN <<"gdpr">> ELSE <<>>)
                  \o (IF hasConsent THEN <<"gdpr_consent">> ELSE <<>>)
                  \o (IF hasUsp THEN <<"us_privacy">> ELSE <<>>)
        body == Prop(serverResponses.v[1], "body")
        syncUrl == Prop(body, "UserSyncEndpoint")
        queryParams == IF Len(keys) > 0 THEN formatQS(keys, params) ELSE ""
        url == IF queryParams # "" THEN Str(ToStr(syncUrl) \o "?" \o queryParams)
               ELSE syncUrl
    IN IF Nullish(body)
       THEN [out |-> Throw("TypeError"), logs |-> 0]
       ELSE [out |-> Ret(Arr(<<Obj([type |-> Str("iframe"), url |-> url])>>)),
             logs |-> 0]

(* ---------------- the older variant's request and response ------------ *)

OLD_SYNC_URL == "http://cs.connatix.com"

RECURSIVE IndexFrom(_, _, _)
\* the first index from i on at which sub occurs in s, 0 when there is none
IndexFrom(s, sub, i) ==
  IF i + Len(sub) - 1 > Len(s) THEN 0
  ELSE IF SubSeq(s, i, i + Len(sub) - 1) = sub THEN i
  ELSE IndexFrom(s, sub, i + 1)

\* s.split(sep)[0]
SplitFirst(s, sep) ==
  LET i == IndexFrom(s, sep, 1) IN IF i = 0 THEN s ELSE SubSeq(s, 1, i - 1)

Loc(protocol, host, pathname) ==
  Obj([protocol |-> Str(protocol), host |-> Str(host), pathname |-> Str(pathname)])

\* new URL(s) for an absolute scheme://host/path string; a string without
\* a scheme is not a URL and raises a TypeError
ParseUrl(s) ==
  LET c == IndexFrom(s, "://", 1)
      p == IF c = 0 THEN 0 ELSE IndexFrom(s, "/", c + 3)
  IN IF c = 0 THEN Throw("TypeError")
     ELSE Ret(Loc(SubSeq(s, 1, c),
                  IF p = 0 THEN SubSeq(s, c + 3, Len(s)) ELSE SubSeq(s, c + 3, p - 1),
                  IF p = 0 THEN "/" ELSE SubSeq(s, p, Len(s))))

\* what the older variant reads from the page and the host's config:
\* window.top (whose screen a cross-origin frame may not read),
\* window.location, navigator.language, config coppa and bidderTimeout
MkEnv(topReadable, coppa, language) ==
  [topReadable |-> topReadable,
   screen |-> Obj([width |-> Num(1920), height |-> Num(1080)]),
   topLocation |-> Loc("https:", "top.example", "/home"),
   location |-> Loc("http:", "frame.example", "/frame"),
   language |-> language, coppa |-> coppa, bidderTimeout |-> Num(3000)]

NoEnv == [none |-> TRUE]

Envs == {MkEnv(TRUE, Bool(TRUE), Str("en-US")), MkEnv(FALSE, Undef, Undef)}

EnvsOf(rev) == IF rev = "old" THEN Envs ELSE {NoEnv}

getPlacementReqData(bid) ==
  LET params == Prop(bid, "params")
      mediaTypes == Prop(bid, "mediaTypes")
      schain == IF Truthy(Prop(bid, "schain")) THEN Prop(bid, "schain") ELSE EmptyObj
      bidfloor == getBidFloor(bid)
      hasBanner == Truthy(mediaTypes) /\ Truthy(Prop(mediaTypes, BANNER))
  IN IF Nullish(params) THEN [out |-> Throw("TypeError"), logs |-> 0]
     ELSE [out |-> Ret(Obj([bidId |-> Prop(bid, "bidId"),
                            schain |-> schain,
                            bidfloor |-> bidfloor.out.value,
                            placementId |-> Prop(params, "placementId"),
                            type |-> Str("publisher"),
                            adFormat |-> IF hasBanner THEN Str(BANNER) ELSE Undef,
                            sizes |-> IF hasBanner
                                      THEN Prop(Prop(mediaTypes, BANNER), "sizes")
                                      ELSE Undef])),
           logs |-> bidfloor.logs]

\* native.js is imported, not part of the sources at hand: for bid
\* requests that declare no native media type the conversion hands back
\* the list it was given
convertOrtbRequestToProprietaryNative(bidRequests) == bidRequests

\* the older variant's buildRequests; requestId in the result is the value
\* the module-level variable holds when the call ends; after is the
\* arguments when the call ends (the code assigns to no property of them)
buildRequestsOld(bidsArg, bidderRequestArg, env, reqId) ==
  LET validBidRequests ==
        convertOrtbRequestToProprietaryNative(IF bidsArg = Undef THEN <<>> ELSE bidsArg.v)
      inputs == [validBidRequests |-> bidsArg, bidderRequest |-> bidderRequestArg]
      bidderRequest == IF bidderRequestArg = Undef THEN EmptyObj ELSE bidderRequestArg
      bids == Prop(bidderRequest, "bids")
      refererInfo == Prop(bidderRequest, "refererInfo")
      refferUrl == IF Truthy(refererInfo) THEN Prop(refererInfo, "page") ELSE refererInfo
      parsed == IF Truthy(refferUrl) THEN ParseUrl(refferUrl.v) ELSE Ret(refferUrl)
      refferLocation == IF parsed.kind = "throw" THEN Undef ELSE parsed.value
      winLocation == IF env.topReadable THEN env.topLocation ELSE env.location
      location == IF Truthy(refferLocation) THEN refferLocation ELSE winLocation
      placements == [i \in 1..Len(validBidRequests) |->
                       getPlacementReqData(validBidRequests[i])]
      request ==
        Obj([deviceWidth |-> IF env.topReadable THEN Prop(env.screen, "width") ELSE Num(0),
             deviceHeight |-> IF env.topReadable THEN Prop(env.screen, "height") ELSE Num(0),
             language |-> IF Truthy(env.language)
                          THEN Str(SplitFirst(env.language.v, "-")) ELSE Str(""),
             secure |-> IF Prop(location, "protocol") = Str("https:") THEN Num(1) ELSE Num(0),
             host |-> Prop(location, "host"),
             page |-> Prop(location, "pathname"),
             placements |-> Arr([i \in 1..Len(validBidRequests) |->
                                   placements[i].out.value]),
             coppa |-> IF env.coppa = Bool(TRUE) THEN Num(1) ELSE Num(0),
             ccpa |-> IF Truthy(Prop(bidderRequest, "uspConsent"))
                      THEN Prop(bidderRequest, "uspConsent") ELSE Undef,
             gdpr |-> IF Truthy(Prop(bidderRequest, "gdprConsent"))
                      THEN Prop(bidderRequest, "gdprConsent") ELSE Undef,
             tmax |-> env.bidderTimeout])
  IN IF Nullish(bids) \/ Len(bids.v) = 0
     THEN [out |-> Throw("TypeError"), logs |-> 0, requestId |-> reqId,
           after |-> inputs]
     ELSE IF \E i \in 1..Len(validBidRequests) : placements[i].out.kind = "throw"
     THEN [out |-> Throw("TypeError"), logs |-> 0,
           requestId |-> Prop(bids.v[1], "bidId"), after |-> inputs]
     ELSE [out |-> Ret(Obj([method |-> Str("POST"), url |-> Str(OLD_AD_URL),
                            data |-> request])),
           logs |-> SumLogs(placements, 1),
           requestId |-> Prop(bids.v[1], "bidId"), after |-> inputs]

MkOldItem(cpm, creativeId, ttl, mediaType, width, adomain) ==
  Obj([requestId |-> Undef, cpm |-> cpm, creativeId |-> creativeId, ttl |-> ttl,
       currency |-> Str("USD"), mediaType |-> mediaType, width |-> width,
       height |-> Num(250), ad |-> Str("<div>ad</div>"), adomain |-> adomain,
       meta |-> Undef, netRevenue |-> Undef])

\* an item that carries the id of the request it answers
WithRequestId(item, id) == Obj([item.v EXCEPT !.requestId = id])

\* items of the older variant's response body: two complete banners (one
\* with advertiser domains), a complete banner that names its request, one with a zero cpm, one without a width, one
\* without a creativeId, and a video item
OldItems ==
  {MkOldItem(Num(4), Str("c1"), Num(300), Str(BANNER), Num(300), Undef),
   MkOldItem(Num(13), Str("c2"), Num(300), Str(BANNER), Num(300),
             Arr(<<Str("adv.example")>>)),
   WithRequestId(MkOldItem(Num(6), Str("c6"), Num(300), Str(BANNER), Num(300), Undef),
                 Str("b1")),
   MkOldItem(Num(0), Str("c3"), Num(300), Str(BANNER), Num(300), Undef),
   MkOldItem(Num(4), Str("c4"), Num(300), Str(BANNER), Undef, Undef),
   MkOldItem(Num(5), Undef, Num(300), Str(BANNER), Num(300), Undef),
   MkOldItem(Num(4), Str("c5"), Num(300), Str("video"), Num(300), Undef)}

\* the responses handed to the older variant's interpretResponse: the body
\* is the list of items
OldServerResponses ==
  {Obj([body |-> b]) :
     b \in {Undef} \cup {Arr(s) : s \in SeqsUpTo(OldItems, MaxRespBids)}}

\* a response check that does not ask for a creativeId
isBidResponseValidNoCreative(bid) ==
  /\ Truthy(Prop(bid, "cpm")) /\ Truthy(Prop(bid, "ttl")) /\ Truthy(Prop(bid, "currency"))
  /\ Prop(bid, "mediaType") = Str(BANNER)
  /\ Truthy(Prop(bid, "width")) /\ Truthy(Prop(bid, "height")) /\ Truthy(Prop(bid, "ad"))

isBidResponseValid(bid) ==
  IF \/ ~Truthy(Prop(bid, "cpm")) \/ ~Truthy(Prop(bid, "creativeId"))
     \/ ~Truthy(Prop(bid, "ttl")) \/ ~Truthy(Prop(bid, "currency"))
  THEN FALSE
  ELSE IF Prop(bid, "mediaType") = Str(BANNER)
  THEN Truthy(Prop(bid, "width")) /\ Truthy(Prop(bid, "height")) /\ Truthy(Prop(bid, "ad"))
  ELSE FALSE

\* the older variant's interpretResponse; it writes into the items of the
\* response it is given: after is that response's body when the call ends
interpretResponseOld(serverResponse, reqId) ==
  LET body == Prop(serverResponse, "body") IN
  IF Nullish(body) \/ Len(body.v) = 0
  THEN [out |-> Throw("TypeError"), logs |-> 0, appended |-> 0, after |-> body]
  ELSE
    LET stamped == [i \in 1..Len(body.v) |->
                      IF i = 1 THEN Obj([body.v[i].v EXCEPT !.requestId = reqId])
                      ELSE body.v[i]]
        items == [i \in 1..Len(body.v) |->
                    LET resItem == stamped[i]
                        adomain == Prop(resItem, "adomain")
                        advertiserDomains ==
                          IF Truthy(adomain) /\ Len(adomain.v) > 0 THEN adomain
                          ELSE Arr(<<>>)
                    IN IF isBidResponseValid(resItem)
                       THEN Obj([resItem.v EXCEPT
                                   !.meta = Obj([advertiserDomains |-> advertiserDomains]),
                                   !.netRevenue = Bool(FALSE),
                                   !.ad = wrapAdOld(resItem, Undef, Undef, Undef).out.value])
                       ELSE resItem]
        response == SelectSeq(items, LAMBDA it : Prop(it, "netRevenue") = Bool(FALSE))
    IN [out |-> Ret(Arr(response)), logs |-> 0, appended |-> 0, after |-> Arr(items)]

\* the older variant's getUserSyncs
getUserSyncsOld(syncOptions, serverResponses, gdprConsent, uspConsent, env) ==
  LET syncType == IF Truthy(Prop(syncOptions, "iframeEnabled")) THEN "iframe" ELSE "image"
      consentString == Prop(gdprConsent, "consentString")
      gdprPart ==
        IF Truthy(gdprConsent) /\ Truthy(consentString)
        THEN IF TypeOf(Prop(gdprConsent, "gdprApplies")) = "boolean"
             THEN "&gdpr=" \o (IF Prop(gdprConsent, "gdprApplies").v THEN "1" ELSE "0")
                    \o "&gdpr_consent=" \o ToStr(consentString)
             ELSE "&gdpr=0&gdpr_consent=" \o ToStr(consentString)
        ELSE ""
      uspPart ==
        IF Truthy(uspConsent) /\ Truthy(Prop(uspConsent, "consentString"))
        THEN "&ccpa_consent=" \o ToStr(Prop(uspConsent, "consentString"))
        ELSE ""
      coppa == IF Truthy(env.coppa) THEN "1" ELSE "0"
  IN [out |-> Ret(Arr(<<Obj([type |-> Str(syncType),
                             url |-> Str(OLD_SYNC_URL \o "/" \o syncType \o "?pbjs=1"
                                           \o gdprPart \o uspPart \o "&coppa=" \o coppa)])>>)),
      logs |-> 0]

(* ------------------------------- state -------------------------------- *)

NoCall == [fn |-> "none"]
NoRet == [out |-> [kind |-> "none"], logs |-> 0]

\* the revisions of modules/connatixBidAdapter.js
ModuleRevisions == {"rev1", "rev2"}

Init ==
  /\ revision \in Revisions
  /\ phase = "idle"
  /\ call = NoCall
  /\ ret = NoRet
  /\ document = 0
  /\ requestId = Str("")

\* the host calls spec.isBidRequestValid(bid)
IsBidRequestValid ==
  /\ phase = "idle"
  /\ \E bid \in ValidationBids :
       /\ call' = [fn |-> "isBidRequestValid", bid |-> bid]
       /\ ret' = isBidRequestValid(revision, bid)
  /\ phase' = "returned"
  /\ UNCHANGED <<revision, document, requestId>>

\* getBidFloor(bid), called on its own as the tests do
GetBidFloor ==
  /\ phase = "idle"
  /\ \E bid \in FloorBids :
       /\ call' = [fn |-> "getBidFloor", bid |-> bid]
       /\ ret' = getBidFloor(bid)
  /\ phase' = "returned"
  /\ UNCHANGED <<revision, document, requestId>>

\* wrapAd(lineItems, requestId, playerId, customerId), called on its own
WrapAd ==
  /\ phase = "idle"
  /\ \E li \in LineItemsChoices, rq \in RequestIds \cup {Undef},
        pl \in PlayerIds, cu \in CustomerIds :
       LET r == wrapAd(revision, li, rq, pl, cu) IN
       /\ document + r.appended <= MaxDocNodes
       /\ call' = [fn |-> "wrapAd", lineItems |-> li, requestId |-> rq,
                   playerId |-> pl, customerId |-> cu]
       /\ ret' = [out |-> r.out, logs |-> r.logs]
       /\ document' = document + r.appended
  /\ phase' = "returned"
  /\ UNCHANGED <<revision, requestId>>

\* the host calls spec.buildRequests(validBidRequests, bidderRequest)
BuildRequests ==
  /\ phase = "idle"
  /\ \E bids \in {Undef} \cup {Arr(s) : s \in SeqsUpTo(BuildBids(revision), MaxBids)} :
     \E bidderRequest \in BidderRequests(bids), env \in EnvsOf(revision) :
       LET r == IF revision = "old"
                THEN buildRequestsOld(bids, bidderRequest, env, requestId)
                ELSE buildRequestsNew(bids, bidderRequest) IN
       /\ call' = [fn |-> "buildRequests", validBidRequests |-> bids,
                   bidderRequest |-> bidderRequest, env |-> env]
       /\ ret' = [out |-> r.out, logs |-> r.logs, after |-> r.after]
       /\ requestId' = IF revision = "old" THEN r.requestId ELSE requestId
  /\ phase' = "returned"
  /\ UNCHANGED <<revision, document>>

\* the host calls spec.interpretResponse(serverResponse)
InterpretResponse ==
  /\ phase = "idle"
  /\ \E serverResponse \in IF revision = "old" THEN OldServerResponses
                           ELSE ServerResponses :
       LET r == CASE revision = "rev1" -> interpretResponseRev1(serverResponse)
                  [] revision = "rev2" -> interpretResponseRev2(serverResponse)
                  [] revision = "old" -> interpretResponseOld(serverResponse, requestId) IN
       /\ document + r.appended <= MaxDocNodes
       /\ call' = [fn |-> "interpretResponse", serverResponse |-> serverResponse]
       /\ ret' = IF revision = "old"
                 THEN [out |-> r.out, logs |-> r.logs, after |-> r.after]
                 ELSE [out |-> r.out, logs |-> r.logs]
       /\ document' = document + r.appended
  /\ phase' = "returned"
  /\ UNCHANGED <<revision, requestId>>

\* the host calls spec.getUserSyncs(syncOptions, serverResponses,
\* gdprConsent, uspConsent, gppConsent)
GetUserSyncs ==
  /\ phase = "idle"
  /\ \E so \in SyncOptionsChoices, sr \in SyncResponsesChoices,
        gdpr \in GdprChoices, usp \in UspChoices, env \in EnvsOf(revision) :
       /\ call' = [fn |-> "getUserSyncs", syncOptions |-> so, serverResponses |-> sr,
                   gdprConsent |-> gdpr, uspConsent |-> usp, env |-> env]
       /\ ret' = CASE revision = "rev1" -> getUserSyncsRev1(so, sr, gdpr, usp)
                   [] revision = "rev2" -> getUserSyncsRev2(so, sr, gdpr, usp)
                   [] revision = "old" -> getUserSyncsOld(so, sr, gdpr, usp, env)
  /\ phase' = "returned"
  /\ UNCHANGED <<revision, document, requestId>>

\* the host takes the result of the call and goes on
HostContinue ==
  /\ phase = "returned"
  /\ phase' = "idle"
  /\ call' = NoCall
  /\ ret' = NoRet
  /\ UNCHANGED <<revision, document, requestId>>

Next ==
  \/ IsBidRequestValid
  \/ GetBidFloor
  \/ WrapAd
  \/ BuildRequests
  \/ InterpretResponse
  \/ GetUserSyncs
  \/ HostContinue

Spec == Init /\ [][Next]_vars

(* ======================= properties of the adapter ==================== *)

\* the host has called fn and holds its outcome
Returned(fn) == phase = "returned" /\ call.fn = fn

\* the bid request a call of isBidRequestValid works on (bid = {} by default)
BidOf(b) == IF b = Undef THEN EmptyObj ELSE b

BannerOf(b) == Prop(Prop(BidOf(b), "mediaTypes"), BANNER)

\* the request lacks bidId, params or params.placementId, or declares a
\* banner whose sizes is missing, not an array, or an empty array
LacksRequired(b) ==
  \/ Prop(BidOf(b), "bidId") = Undef
  \/ Prop(BidOf(b), "params") = Undef
  \/ Prop(Prop(BidOf(b), "params"), "placementId") = Undef
  \/ /\ BannerOf(b) # Undef
     /\ \/ Prop(BannerOf(b), "sizes") = Undef
        \/ ~isArray(Prop(BannerOf(b), "sizes"))
        \/ Prop(BannerOf(b), "sizes") = Arr(<<>>)

\* non-empty bidId, params with a non-empty placementId, and a banner with
\* a non-empty sizes array
HasRequired(b) ==
  /\ Truthy(Prop(BidOf(b), "bidId"))
  /\ Prop(BidOf(b), "params") # Undef
  /\ Truthy(Prop(Prop(BidOf(b), "params"), "placementId"))
  /\ BannerOf(b) # Undef
  /\ isArray(Prop(BannerOf(b), "sizes"))
  /\ Prop(BannerOf(b), "sizes") # Arr(<<>>)

\* C1: isBidRequestValid returns false for every bid request that lacks a
\* bidId, the params object or params.placementId, or declares a banner
\* whose sizes is missing, not an array or empty -- in every revision.
\* (The older variant accepts a banner whose sizes is a string or [].)
C1_InvalidWhenRequiredMissing ==
  (Returned("isBidRequestValid") /\ LacksRequired(call.bid))
    => ret.out = Ret(Bool(FALSE))

\* C1, for the two revisions of modules/connatixBidAdapter.js alone: there
\* the statement holds.
C1_ModuleRevisions ==
  (revision \in ModuleRevisions /\ Returned("isBidRequestValid")
     /\ LacksRequired(call.bid))
    => ret.out = Ret(Bool(FALSE))

\* C2 as stated: a bid request with a non-empty bidId, a params object with
\* a non-empty placementId and a banner with a non-empty sizes array is
\* valid whatever its other fields (the bidder field among them) are.
C2_Original ==
  (Returned("isBidRequestValid") /\ HasRequired(call.bid))
    => ret.out = Ret(Bool(TRUE))

\* C2, amended: such a bid request is valid whenever its bidder field is
\* 'connatix', whatever extra parameters or other media types it carries.
C2_ValidWhenRequiredPresent ==
  (Returned("isBidRequestValid") /\ HasRequired(call.bid)
     /\ Prop(BidOf(call.bid), "bidder") = Str(BIDDER_CODE))
    => ret.out = Ret(Bool(TRUE))

\* a request with every required field, an unrecognized parameter and a
\* video media type beside the banner was found valid
C2_Witness ==
  /\ Returned("isBidRequestValid")
  /\ revision = "rev1"
  /\ HasRequired(call.bid)
  /\ Prop(BidOf(call.bid), "bidder") = Str(BIDDER_CODE)
  /\ Prop(Prop(call.bid, "params"), "test") = Num(1)
  /\ Prop(Prop(call.bid, "mediaTypes"), "video") # Undef
  /\ ret.out = Ret(Bool(TRUE))

\* C3: getBidFloor returns the floor getFloor reports whenever getFloor is a
\* function and returns a floor object, even if params.bidfloor is present;
\* returns params.bidfloor when getFloor is not a function; returns 0 when
\* neither exists; and returns 0, without raising, when getFloor throws.
C3_FloorResolution ==
  Returned("getBidFloor") =>
    LET getFloor == Prop(call.bid, "getFloor")
        bidfloor == Prop(Prop(call.bid, "params"), "bidfloor")
    IN /\ ret.out.kind = "return"
       /\ (isFn(getFloor) /\ getFloor.v.kind = "return" /\ ~Nullish(getFloor.v.value))
            => ret.out.value = Prop(getFloor.v.value, "floor")
       /\ (~isFn(getFloor) /\ bidfloor # Undef) => ret.out.value = bidfloor
       /\ (~isFn(getFloor) /\ bidfloor = Undef) => ret.out.value = Num(0)
       /\ (isFn(getFloor) /\ getFloor.v.kind = "throw") => ret.out.value = Num(0)

\* getFloor reported 7 while params.bidfloor was 3, and 7 came back
C3_Witness ==
  /\ Returned("getBidFloor")
  /\ Prop(call.bid, "getFloor") = Fn(Ret(Obj([floor |-> Num(7)])))
  /\ Prop(Prop(call.bid, "params"), "bidfloor") = Num(3)
  /\ ret.out = Ret(Num(7))

\* getFloor threw while params.bidfloor was 3, and 0 came back
C3_WitnessThrow ==
  /\ Returned("getBidFloor")
  /\ Prop(call.bid, "getFloor") = Fn(Throw("Error"))
  /\ Prop(Prop(call.bid, "params"), "bidfloor") = Num(3)
  /\ ret.out = Ret(Num(0))

\* the list buildRequests was called on, and its auction context
InputBids == IF call.validBidRequests = Undef THEN <<>> ELSE call.validBidRequests.v
InputContext == IF call.bidderRequest = Undef THEN EmptyObj ELSE call.bidderRequest

\* C4: buildRequests (modules/connatixBidAdapter.js) returns one descriptor
\* with method "POST" and url AD_URL, whose data.bidRequests has the length
\* and order of the input list, entry i carrying input i's bidId,
\* params.placementId and getBidFloor(input i), and whose data.gdprConsent,
\* uspConsent, refererInfo and ortb2 are the auction context's own values.
C4_RequestDescriptor ==
  (revision \in ModuleRevisions /\ Returned("buildRequests")) =>
    /\ ret.out.kind = "return"
    /\ ret.out.value.t = "object"
    /\ Prop(ret.out.value, "method") = Str("POST")
    /\ Prop(ret.out.value, "url") = Str("https://capi.connatix.com/rtb/hba")
    /\ LET data == Prop(ret.out.value, "data")
           bidRequests == Prop(data, "bidRequests")
       IN /\ isArray(bidRequests)
          /\ Len(bidRequests.v) = Len(InputBids)
          /\ \A i \in 1..Len(InputBids) :
               /\ Prop(bidRequests.v[i], "bidId") = Prop(InputBids[i], "bidId")
               /\ Prop(bidRequests.v[i], "placementId")
                    = Prop(Prop(InputBids[i], "params"), "placementId")
               /\ Prop(bidRequests.v[i], "floor") = getBidFloor(InputBids[i]).out.value
          /\ Prop(data, "gdprConsent") = Prop(InputContext, "gdprConsent")
          /\ Prop(data, "uspConsent") = Prop(InputContext, "uspConsent")
          /\ Prop(data, "refererInfo") = Prop(InputContext, "refererInfo")
          /\ Prop(data, "ortb2") = Prop(InputContext, "ortb2")

\* two different requests, the second with a floor provider that beats its
\* static floor, and a context with every consent field, were built
C4_Witness ==
  /\ Returned("buildRequests")
  /\ Len(InputBids) = 2
  /\ Prop(InputBids[1], "bidId") = Str("b2")
  /\ Prop(InputBids[2], "bidId") = Str("b1")
  /\ Prop(InputBids[2], "getFloor") = GetFloorReturns7
  /\ Prop(Prop(InputBids[2], "params"), "bidfloor") = Num(3)
  /\ Prop(InputContext, "gdprConsent") = GdprConsentFull
  /\ Prop(InputContext, "ortb2") = Ortb2
  /\ ret.out.kind = "return"
  /\ Prop(Prop(Prop(ret.out.value, "data"), "bidRequests").v[2], "floor") = Num(7)

\* the body of the response interpretResponse was called on
InputBody == Prop(call.serverResponse, "body")

\* C5: interpretResponse returns an empty list whenever the body's Bids is
\* null or an empty list, or its CustomerId is null, or its PlayerId is
\* null.  (rev2 answers such a response from its embedded literal.)
C5_EmptyOnMissingParts ==
  (revision \in ModuleRevisions /\ Returned("interpretResponse")
     /\ ~Nullish(InputBody)
     /\ \/ Prop(InputBody, "Bids") = Null
        \/ Prop(InputBody, "Bids") = Arr(<<>>)
        \/ Prop(InputBody, "CustomerId") = Null
        \/ Prop(InputBody, "PlayerId") = Null)
    => ret.out = Ret(Arr(<<>>))

\* C5, for rev1 alone: there the statement holds.
C5_Rev1 == revision = "rev1" => C5_EmptyOnMissingParts

\* C6: for a response with non-empty PlayerId and CustomerId and a Bids
\* list of N records, interpretResponse returns N results in input order,
\* nothing sorted or dropped, result i with requestId and cpm of record i,
\* currency "USD", mediaType banner and netRevenue true.
C6_OneResultPerRecord ==
  (revision \in ModuleRevisions /\ Returned("interpretResponse")
     /\ ~Nullish(InputBody)
     /\ Truthy(Prop(InputBody, "PlayerId"))
     /\ Truthy(Prop(InputBody, "CustomerId"))
     /\ isArray(Prop(InputBody, "Bids")))
    => LET bids == Prop(InputBody, "Bids").v IN
       /\ ret.out.kind = "return"
       /\ isArray(ret.out.value)
       /\ Len(ret.out.value.v) = Len(bids)
       /\ \A i \in 1..Len(bids) :
            LET r == ret.out.value.v[i] IN
            /\ Prop(r, "requestId") = Prop(bids[i], "RequestId")
            /\ Prop(r, "cpm") = Prop(bids[i], "Cpm")
            /\ Prop(r, "currency") = Str("USD")
            /\ Prop(r, "mediaType") = Str("banner")
            /\ Prop(r, "netRevenue") = Bool(TRUE)

\* two records with the same RequestId, the dearer one first, came back as
\* two results in that order
C6_Witness ==
  /\ Returned("interpretResponse")
  /\ ~Nullish(InputBody)
  /\ Truthy(Prop(InputBody, "PlayerId"))
  /\ Truthy(Prop(InputBody, "CustomerId"))
  /\ isArray(Prop(InputBody, "Bids"))
  /\ Len(Prop(InputBody, "Bids").v) = 2
  /\ Prop(Prop(InputBody, "Bids").v[1], "RequestId")
       = Prop(Prop(InputBody, "Bids").v[2], "RequestId")
  /\ Prop(Prop(InputBody, "Bids").v[1], "Cpm") = Num(13)
  /\ Prop(Prop(InputBody, "Bids").v[2], "Cpm") = Num(4)
  /\ ret.out.kind = "return"
  /\ Len(ret.out.value.v) = 2
  /\ Prop(ret.out.value.v[1], "cpm") = Num(13)

\* no server responses were handed to getUserSyncs
NoSyncResponses ==
  \/ call.serverResponses = Undef
  \/ call.serverResponses = Arr(<<>>)

\* C7: getUserSyncs returns an empty list when syncOptions.iframeEnabled is
\* false or serverResponses is absent or empty, and otherwise returns
\* exactly one descriptor whose type is "iframe".
C7_SyncDescriptor ==
  (revision \in ModuleRevisions /\ Returned("getUserSyncs")) =>
    IF ~Truthy(Prop(call.syncOptions, "iframeEnabled")) \/ NoSyncResponses
    THEN ret.out = Ret(Arr(<<>>))
    ELSE /\ ret.out.kind = "return"
         /\ isArray(ret.out.value)
         /\ Len(ret.out.value.v) = 1
         /\ Prop(ret.out.value.v[1], "type") = Str("iframe")

\* C7, its first half alone: no descriptor when iframe syncing is off or
\* there is no response.  It holds in both revisions.
C7_EmptyWhenDisabled ==
  (revision \in ModuleRevisions /\ Returned("getUserSyncs")
     /\ (~Truthy(Prop(call.syncOptions, "iframeEnabled")) \/ NoSyncResponses))
    => ret.out = Ret(Arr(<<>>))

\* getUserSyncs returned a sync descriptor
SyncReturned ==
  /\ revision \in ModuleRevisions
  /\ Returned("getUserSyncs")
  /\ ret.out.kind = "return"
  /\ Len(ret.out.value.v) = 1

\* the URL of the descriptor, as a string
SyncUrl == ToStr(Prop(ret.out.value.v[1], "url"))

\* the URL has a query parameter named key
HasParam(url, key) ==
  Contains(url, "?" \o key \o "=") \/ Contains(url, "&" \o key \o "=")

\* a URL without consent parameters is the response's endpoint, untouched
BareEndpoint ==
  Prop(ret.out.value.v[1], "url")
    = Prop(Prop(call.serverResponses.v[1], "body"), "UserSyncEndpoint")

\* C8 as stated: in the sync URL, gdpr and gdpr_consent are both present
\* iff a GDPR consent object was passed, us_privacy is present iff a CCPA
\* string was passed, and nothing is appended when no consent was passed.
C8_Original ==
  SyncReturned =>
    /\ (HasParam(SyncUrl, "gdpr") /\ HasParam(SyncUrl, "gdpr_consent"))
         <=> (call.gdprConsent # Undef)
    /\ HasParam(SyncUrl, "us_privacy") <=> (call.uspConsent.t = "string")
    /\ (call.gdprConsent = Undef /\ call.uspConsent = Undef) => BareEndpoint

\* C8, amended: gdpr is present iff a GDPR consent object was passed,
\* gdpr_consent iff that object carries a string consentString, us_privacy
\* iff a CCPA string was passed, and nothing is appended when no consent
\* was passed.
C8_ConsentParams ==
  SyncReturned =>
    /\ HasParam(SyncUrl, "gdpr") <=> (call.gdprConsent # Undef)
    /\ HasParam(SyncUrl, "gdpr_consent")
         <=> (call.gdprConsent # Undef
                /\ Prop(call.gdprConsent, "consentString").t = "string")
    /\ HasParam(SyncUrl, "us_privacy") <=> (call.uspConsent.t = "string")
    /\ (call.gdprConsent = Undef /\ call.uspConsent = Undef) => BareEndpoint

\* a consent object without a consentString gave a URL with gdpr and
\* us_privacy but without gdpr_consent
C8_Witness ==
  /\ SyncReturned
  /\ call.gdprConsent = Obj([consentString |-> Undef, gdprApplies |-> Bool(TRUE)])
  /\ call.uspConsent = Str("1YYY")
  /\ SyncUrl = "https://sync.one/s?gdpr=1&us_privacy=1YYY"

\* C9: the string wrapAd returns contains the request id, the customer id
\* and the player id, and the exact serialization
\* JSON.stringify({advertising: {standaloneLineItems: lineItems}}) -- in
\* every revision.  (The older variant returns a template with fixed ids.)
C9_MarkupCarriesIds ==
  Returned("wrapAd") =>
    /\ ret.out.kind = "return"
    /\ ret.out.value.t = "string"
    /\ Contains(ret.out.value.v, ToStr(call.requestId))
    /\ Contains(ret.out.value.v, ToStr(call.customerId))
    /\ Contains(ret.out.value.v, ToStr(call.playerId))
    /\ Contains(ret.out.value.v, JsonStringify(Settings(call.lineItems)))

\* C9, for the two revisions of modules/connatixBidAdapter.js alone: there
\* the statement holds.
C9_ModuleRevisions == revision \in ModuleRevisions => C9_MarkupCarriesIds

\* C10: no call of wrapAd, and so no call of interpretResponse, changes
\* anything outside its return value: the document never gains a node.
\* (rev2's wrapAd appends an iframe to document.body on every call.)
C10_DocumentUnchanged == document = 0

\* C10, for rev1 alone: there the document is left as it was.
C10_Rev1 == revision = "rev1" => document = 0

\* C11: buildRequests leaves its inputs as they were: when a call ends,
\* the list of bid requests and the auction context it was given have
\* exactly the fields and values they had when it began -- in both
\* revisions of the module and in the older variant.
C11_InputsUnchanged ==
  Returned("buildRequests") =>
    /\ ret.after.validBidRequests = call.validBidRequests
    /\ ret.after.bidderRequest = call.bidderRequest

\* the older variant built a request for two bid requests, one of them
\* with a floor provider, under a context with consent, and recorded the
\* first one's bidId; the inputs are as they were
C11_Witness ==
  /\ Returned("buildRequests")
  /\ revision = "old"
  /\ Len(InputBids) = 2
  /\ Prop(InputBids[1], "getFloor") = GetFloorReturns7
  /\ Prop(InputContext, "gdprConsent") = GdprConsentFull
  /\ ret.out.kind = "return"
  /\ requestId = Prop(InputBids[1], "bidId")
  /\ ret.after.validBidRequests = call.validBidRequests

\* C12: isBidRequestValid (modules/connatixBidAdapter.js) returns true only
\* if the request's bidder is 'connatix' and its mediaTypes exists and has
\* a banner entry: with another bidder, without mediaTypes or without a
\* banner the request is invalid even when bidId and params.placementId
\* are present.
C12_BidderAndBannerRequired ==
  (revision \in ModuleRevisions /\ Returned("isBidRequestValid")
     /\ ret.out = Ret(Bool(TRUE)))
    => /\ Prop(BidOf(call.bid), "bidder") = Str(BIDDER_CODE)
       /\ Prop(BidOf(call.bid), "mediaTypes") # Undef
       /\ BannerOf(call.bid) # Undef

\* a 'connatix' request with bidId and placementId but no mediaTypes was
\* turned down
C12_Witness ==
  /\ Returned("isBidRequestValid")
  /\ revision = "rev2"
  /\ Prop(BidOf(call.bid), "bidder") = Str(BIDDER_CODE)
  /\ Truthy(Prop(BidOf(call.bid), "bidId"))
  /\ Truthy(Prop(Prop(BidOf(call.bid), "params"), "placementId"))
  /\ Prop(BidOf(call.bid), "mediaTypes") = Undef
  /\ ret.out = Ret(Bool(FALSE))

\* C12 read over every revision: the older variant looks at neither the
\* bidder nor the presence of mediaTypes.
C12_EveryRevision ==
  (Returned("isBidRequestValid") /\ ret.out = Ret(Bool(TRUE)))
    => /\ Prop(BidOf(call.bid), "bidder") = Str(BIDDER_CODE)
       /\ BannerOf(call.bid) # Undef

\* getBidFloor was called on a bid whose getFloor is a function that throws
FloorProviderThrew ==
  /\ Returned("getBidFloor")
  /\ isFn(Prop(call.bid, "getFloor"))
  /\ Prop(call.bid, "getFloor").v.kind = "throw"

\* C13 as stated: when getFloor is a function and throws, getBidFloor
\* returns params.bidfloor when that parameter is present, and 0 only when
\* it is absent.
C13_Original ==
  FloorProviderThrew =>
    ret.out = Ret(deepAccess(call.bid, <<"params", "bidfloor">>, Num(0)))

\* C13, amended: when getFloor is a function and throws, getBidFloor logs
\* the error and returns 0, whether or not params.bidfloor is present.
C13_ZeroWhenProviderThrows ==
  FloorProviderThrew => (ret.out = Ret(Num(0)) /\ ret.logs = 1)

\* getFloor threw on a bid with params.bidfloor 3: the error was logged
\* and 0 came back, not 3
C13_Witness ==
  /\ FloorProviderThrew
  /\ Prop(Prop(call.bid, "params"), "bidfloor") = Num(3)
  /\ ret.logs = 1
  /\ ret.out = Ret(Num(0))

\* C14: the body buildRequests builds carries the auction's GPP consent
\* signal at the top level, unmodified, whenever the auction context has
\* one: some top-level field of data is the context's gppConsent.
\* (requestPayload has ortb2, gdprConsent, uspConsent, refererInfo and
\* bidRequests, and nothing for GPP.)
C14_GppPassedThrough ==
  (revision \in ModuleRevisions /\ Returned("buildRequests")
     /\ Prop(InputContext, "gppConsent") # Undef)
    => /\ ret.out.kind = "return"
       /\ LET data == Prop(ret.out.value, "data") IN
          \E k \in DOMAIN data.v : data.v[k] = Prop(InputContext, "gppConsent")

\* C15: for every bid request isBidRequestValid accepts, its entry of
\* data.bidRequests carries the request's declared sizes: the entry's
\* sizes is the non-empty sizes array under the request's banner media
\* type.  (The code copies the request's top-level sizes field, which the
\* tests' request does not have.)
C15_DeclaredSizes ==
  (revision \in ModuleRevisions /\ Returned("buildRequests")) =>
    /\ ret.out.kind = "return"
    /\ \A i \in 1..Len(InputBids) :
         isBidRequestValid(revision, InputBids[i]).out = Ret(Bool(TRUE))
           => Prop(Prop(Prop(ret.out.value, "data"), "bidRequests").v[i], "sizes")
                = Prop(BannerOf(InputBids[i]), "sizes")

\* interpretResponse (modules/connatixBidAdapter.js) was called on a
\* response with PlayerId, CustomerId and a list of bid records
ModuleInterpreted ==
  /\ revision \in ModuleRevisions
  /\ Returned("interpretResponse")
  /\ ~Nullish(InputBody)
  /\ Truthy(Prop(InputBody, "PlayerId"))
  /\ Truthy(Prop(InputBody, "CustomerId"))
  /\ isArray(Prop(InputBody, "Bids"))

\* the older variant's interpretResponse was called on a list of items
OldInterpreted ==
  /\ revision = "old"
  /\ Returned("interpretResponse")
  /\ isArray(InputBody)
  /\ Len(InputBody.v) > 0

\* a bid record of the module's response with a positive Cpm, a CreativeId
\* and a Ttl (the currency is not part of a record: it is always USD)
CompleteRecord(r) ==
  /\ Truthy(Prop(r, "Cpm")) /\ Truthy(Prop(r, "CreativeId")) /\ Truthy(Prop(r, "Ttl"))

\* an item of the older variant's response with a positive cpm, a
\* creativeId, a ttl and a currency
CompleteItem(r) ==
  /\ Truthy(Prop(r, "cpm")) /\ Truthy(Prop(r, "creativeId"))
  /\ Truthy(Prop(r, "ttl")) /\ Truthy(Prop(r, "currency"))

\* the number of elements of a sequence that satisfy Test
CountOf(seq, Test(_)) == Cardinality({i \in 1..Len(seq) : Test(seq[i])})

\* C16 as stated: interpretResponse drops, without raising, every bid
\* record that lacks a positive price, a creative identifier, a
\* time-to-live or a currency: only complete records yield a result.
C16_Original ==
  /\ ModuleInterpreted =>
       /\ ret.out.kind = "return"
       /\ Len(ret.out.value.v) = CountOf(Prop(InputBody, "Bids").v, CompleteRecord)
  /\ OldInterpreted =>
       /\ ret.out.kind = "return"
       /\ \A i \in 1..Len(ret.out.value.v) : CompleteItem(ret.out.value.v[i])

\* C16, amended: the module's interpretResponse drops no bid record: a
\* record without a positive Cpm, a CreativeId or a Ttl yields a result
\* like any other, in its place.  Only the older variant drops items: it
\* returns, in order, the items that have cpm, creativeId, ttl and
\* currency and are banners with width, height and ad.
C16_OnlyOlderVariantDrops ==
  /\ ModuleInterpreted =>
       LET bids == Prop(InputBody, "Bids").v IN
       /\ ret.out.kind = "return"
       /\ Len(ret.out.value.v) = Len(bids)
       /\ \A i \in 1..Len(bids) :
            /\ Prop(ret.out.value.v[i], "requestId") = Prop(bids[i], "RequestId")
            /\ Prop(ret.out.value.v[i], "creativeId") = Prop(bids[i], "CreativeId")
  /\ OldInterpreted =>
       LET Kept(r) == /\ CompleteItem(r)
                      /\ Prop(r, "mediaType") = Str("banner")
                      /\ Truthy(Prop(r, "width")) /\ Truthy(Prop(r, "height"))
                      /\ Truthy(Prop(r, "ad"))
       IN /\ ret.out.kind = "return"
          /\ Len(ret.out.value.v) = CountOf(InputBody.v, Kept)
          /\ \A i \in 1..Len(ret.out.value.v) :
               /\ Kept(ret.out.value.v[i])
               /\ \E j \in 1..Len(InputBody.v) :
                    Prop(ret.out.value.v[i], "creativeId")
                      = Prop(InputBody.v[j], "creativeId")

\* the module was given a record without CreativeId and a record with
\* Cpm 0, and returned a result for each
C16_Witness ==
  /\ ModuleInterpreted
  /\ Len(Prop(InputBody, "Bids").v) = 2
  /\ Prop(Prop(InputBody, "Bids").v[1], "CreativeId") = Undef
  /\ Prop(Prop(InputBody, "Bids").v[2], "Cpm") = Num(0)
  /\ ret.out.kind = "return"
  /\ Len(ret.out.value.v) = 2
  /\ Prop(ret.out.value.v[2], "cpm") = Num(0)

\* the older variant was given a complete banner and an item with cpm 0,
\* and returned the banner alone
C16_WitnessOlder ==
  /\ OldInterpreted
  /\ Len(InputBody.v) = 2
  /\ Prop(InputBody.v[1], "cpm") = Num(0)
  /\ CompleteItem(InputBody.v[2])
  /\ ret.out.kind = "return"
  /\ Len(ret.out.value.v) = 1

\* C17: every result of interpretResponse has the ttl of its bid record
\* when the record has a Ttl, and the number 3600 when it has none; the ttl
\* is a number either way.  (DEFAULT_MAX_TTL is the string '3600'.)
C17_TtlNumber ==
  ModuleInterpreted =>
    LET bids == Prop(InputBody, "Bids").v IN
    /\ ret.out.kind = "return"
    /\ Len(ret.out.value.v) = Len(bids)
    /\ \A i \in 1..Len(bids) :
         /\ Prop(ret.out.value.v[i], "ttl")
              = (IF Prop(bids[i], "Ttl") # Undef THEN Prop(bids[i], "Ttl") ELSE Num(3600))
         /\ TypeOf(Prop(ret.out.value.v[i], "ttl")) = "number"

\* C17 without the type: the ttl is the record's Ttl when it has one, and
\* otherwise converts to "3600".  This much holds.
C17_TtlOrDefaultText ==
  ModuleInterpreted =>
    LET bids == Prop(InputBody, "Bids").v IN
    \A i \in 1..Len(bids) :
      IF Prop(bids[i], "Ttl") # Undef
      THEN Prop(ret.out.value.v[i], "ttl") = Prop(bids[i], "Ttl")
      ELSE ToStr(Prop(ret.out.value.v[i], "ttl")) = "3600"

\* the video entry of the request's mediaTypes
VideoOf(b) == Prop(Prop(BidOf(b), "mediaTypes"), "video")

\* isBidRequestValid was asked about a 'connatix' request with bidId and
\* placementId that declares video and no banner
VideoOnlyRequest ==
  /\ Returned("isBidRequestValid")
  /\ Prop(BidOf(call.bid), "bidder") = Str(BIDDER_CODE)
  /\ Truthy(Prop(BidOf(call.bid), "bidId"))
  /\ Truthy(Prop(Prop(BidOf(call.bid), "params"), "placementId"))
  /\ VideoOf(call.bid) # Undef
  /\ BannerOf(call.bid) = Undef

\* C18: a request that declares video is turned down only when its video
\* context is adpod: with bidId and placementId present, video declared
\* and no banner, the request is valid exactly when the context is not
\* adpod -- in the module and in the older variant.  (No revision reads
\* the video context.)
C18_VideoRule ==
  VideoOnlyRequest =>
    ret.out = Ret(Bool(Prop(VideoOf(call.bid), "context") # Str("adpod")))

\* what the module does with such a request: it is invalid, whatever the
\* video context
C18_ModuleRejectsVideoOnly ==
  (revision \in ModuleRevisions /\ VideoOnlyRequest) => ret.out = Ret(Bool(FALSE))

\* what the older variant does with such a request: it is valid, whatever
\* the video context
C18_OlderAcceptsAnyVideo ==
  (revision = "old" /\ VideoOnlyRequest) => ret.out = Ret(Bool(TRUE))

\* C19: the result of interpretResponse depends only on the response it is
\* given: every result's requestId is the request id of the bid record it
\* was built from, never the id the last buildRequests call recorded.
\* (The older variant writes its module-level requestId into the first
\* item of every response.)
C19_RequestIdFromRecord ==
  /\ ModuleInterpreted =>
       \A i \in 1..Len(Prop(InputBody, "Bids").v) :
         Prop(ret.out.value.v[i], "requestId")
           = Prop(Prop(InputBody, "Bids").v[i], "RequestId")
  /\ (OldInterpreted /\ ret.out.kind = "return") =>
       \A i \in 1..Len(ret.out.value.v) :
         \E j \in 1..Len(InputBody.v) :
           /\ Prop(InputBody.v[j], "creativeId") = Prop(ret.out.value.v[i], "creativeId")
           /\ Prop(InputBody.v[j], "requestId") = Prop(ret.out.value.v[i], "requestId")

\* C19, for the module alone: there the statement holds.
C19_ModuleRevisions == revision \in ModuleRevisions => C19_RequestIdFromRecord

\* what the older variant does: the first item of the response leaves with
\* the id the last buildRequests call recorded
C19_OlderStampsLastRequest ==
  OldInterpreted => Prop(ret.after.v[1], "requestId") = requestId

\* the older variant never answers an item that names request b1 with the
\* id b2 of a later buildRequests call.  (It does.)
C19_NoStaleRequestId ==
  ~ /\ OldInterpreted
    /\ Prop(InputBody.v[1], "requestId") = Str("b1")
    /\ ret.out.kind = "return"
    /\ Len(ret.out.value.v) > 0
    /\ Prop(ret.out.value.v[1], "requestId") = Str("b2")

\* the UserSyncEndpoint of the i-th response handed to getUserSyncs, as text
EndpointOf(i) ==
  ToStr(Prop(Prop(call.serverResponses.v[i], "body"), "UserSyncEndpoint"))

\* the URL begins with the text e
StartsWith(url, e) == Len(url) >= Len(e) /\ SubSeq(url, 1, Len(e)) = e

\* C20: when getUserSyncs is given several server responses, the URL of
\* the descriptor it returns is built from the UserSyncEndpoint of the last
\* response of the list.  (The code reads serverResponses[0].)
C20_LastResponseEndpoint ==
  SyncReturned =>
    StartsWith(SyncUrl, EndpointOf(Len(call.serverResponses.v)))

\* what the code does: the URL is built from the first response's endpoint
C20_FirstResponseEndpoint ==
  SyncReturned => StartsWith(SyncUrl, EndpointOf(1))

\* C21: interpretResponse and getUserSyncs never raise on a malformed
\* response: for a response without a body interpretResponse returns an
\* empty list, and getUserSyncs returns without raising and never hands
\* out a descriptor whose URL is built from an undefined endpoint.
\* (Both read properties of serverResponse.body without looking at it.)
C21_NeverRaises ==
  /\ (revision \in ModuleRevisions /\ Returned("interpretResponse")
        /\ Nullish(InputBody))
       => ret.out = Ret(Arr(<<>>))
  /\ (revision \in ModuleRevisions /\ Returned("getUserSyncs")) =>
       /\ ret.out.kind = "return"
       /\ \A i \in 1..Len(ret.out.value.v) :
            LET url == Prop(ret.out.value.v[i], "url") IN
            /\ TypeOf(url) = "string"
            /\ ~StartsWith(url.v, "undefined")

\* what the module does with a response without a body: interpretResponse
\* raises a TypeError, in both revisions
C21_BodylessResponseRaises ==
  (revision \in ModuleRevisions /\ Returned("interpretResponse")
     /\ Nullish(InputBody))
    => ret.out = Throw("TypeError")

\* what the second revision's getUserSyncs does when syncing is enabled:
\* it raises a TypeError when the first response has no body, and returns
\* a descriptor in every other case, an endpoint or none
C21_SyncRaisesOrReturnsOne ==
  (revision = "rev2" /\ Returned("getUserSyncs")
     /\ Truthy(Prop(call.syncOptions, "iframeEnabled")) /\ ~NoSyncResponses)
    => IF Nullish(Prop(call.serverResponses.v[1], "body"))
       THEN ret.out = Throw("TypeError")
       ELSE ret.out.kind = "return" /\ Len(ret.out.value.v) = 1

\* getUserSyncs never returns a URL built from a missing endpoint under a
\* consent string.  (It returns "undefined?gdpr=1...".)
C21_NoUndefinedUrl ==
  ~ /\ SyncReturned
    /\ Prop(Prop(call.serverResponses.v[1], "body"), "UserSyncEndpoint") = Undef
    /\ StartsWith(SyncUrl, "undefined?gdpr=")

\* C22: getBidFloor always returns a number: for every bid request, also
\* one whose getFloor returns null, a non-object or an object without a
\* floor field, the result is a defined numeric floor, and so every floor
\* in the body buildRequests builds is a number.  (The code returns
\* bidFloor.floor and params.bidfloor as they are.)
C22_FloorIsNumber ==
  /\ Returned("getBidFloor") =>
       (ret.out.kind = "return" /\ TypeOf(ret.out.value) = "number")
  /\ (Returned("buildRequests") /\ ret.out.kind = "return"
        /\ revision \in ModuleRevisions) =>
       \A i \in 1..Len(InputBids) :
         TypeOf(Prop(Prop(Prop(ret.out.value, "data"), "bidRequests").v[i], "floor"))
           = "number"

\* what the code does guarantee: getBidFloor returns, and the result is a
\* number when getFloor throws or returns null, when getFloor returns an
\* object whose floor is a number, and when there is no getFloor and
\* params.bidfloor is a number or absent
C22_NumberFromNumbers ==
  Returned("getBidFloor") =>
    LET getFloor == Prop(call.bid, "getFloor")
        bidfloor == Prop(Prop(call.bid, "params"), "bidfloor")
    IN /\ ret.out.kind = "return"
       /\ (\/ isFn(getFloor) /\ getFloor.v.kind = "throw"
           \/ isFn(getFloor) /\ getFloor.v.kind = "return"
                /\ \/ Nullish(getFloor.v.value)
                   \/ TypeOf(Prop(getFloor.v.value, "floor")) = "number"
           \/ ~isFn(getFloor) /\ TypeOf(bidfloor) \in {"number", "undefined"})
            => TypeOf(ret.out.value) = "number"

\* getBidFloor never returns undefined.  (It does, when getFloor returns
\* an object without a floor field.)
C22_NeverUndefined ==
  ~ /\ Returned("getBidFloor")
    /\ Prop(call.bid, "getFloor") = Fn(Ret(Obj([floor |-> Undef])))
    /\ ret.out = Ret(Undef)

====
